---------------------------- MODULE Spec2Model ----------------------------
(***************************************************************************)
(* Model of gcoord-rs (src/src/lib.rs): conversion of coordinates between  *)
(* WGS84, GCJ02 and BD09.                                                  *)
(*                                                                         *)
(* Numbers.  The program computes in f64.  The model computes in decimal   *)
(* fixed point on 32-bit integers:                                         *)
(*   - a longitude or latitude is an integer number of 1e-7 degrees (DEG   *)
(*     units per degree), so the bounding box, the 1e-6 tolerance and the  *)
(*     additive BD09 offsets are exact;                                    *)
(*   - every other real is an integer number of 1e-6 (FP units per one);   *)
(*   - an angle handed to sin/cos is a number of 1e-7 turns, reduced       *)
(*     modulo one turn before the series is evaluated.                     *)
(* Every formula is evaluated in the order of the source.  The results     *)
(* agree with the f64 results to about one unit (1e-7 degree).             *)
(***************************************************************************)
EXTENDS Integers, Sequences, FiniteSets, TLC

(***************************************************************************)
(* Fixed-point arithmetic (the f64 operators of the source)                *)
(***************************************************************************)
DEG == 10000000

FP == 1000000

Base == 1000

\* The arithmetic is written as functions, which take their arguments by
\* value as the f64 operators do.

Abs(a) == IF a < 0 THEN 0 - a ELSE a

\* the element of a set of one element; The({e(v) : v \in {x}}) is e(x) with
\* x evaluated once
The(S) == CHOOSE v \in S : TRUE

\* floor(a * b / FP), computed on the base-1000 digits of a and b so that no
\* intermediate product leaves the 32-bit range
FMul[a \in Int, b \in Int] ==
    LET ah == a \div Base
        al == a % Base
        bh == b \div Base
        bl == b % Base
    IN  ah * bh + (ah * bl + al * bh + (al * bl) \div Base) \div Base

Pow10[n \in Nat] == IF n = 0 THEN 1 ELSE 10 * Pow10[n - 1]

\* the first n decimal digits of r / b, for 0 <= r < b
Frac[r \in Int, b \in Int, n \in Nat] ==
    IF n = 0 THEN 0
    ELSE ((r * 10) \div b) * Pow10[n - 1] + Frac[(r * 10) % b, b, n - 1]

\* floor(a * 10^n / b) by long division, for a >= 0 and b > 0
LongDiv[a \in Int, b \in Int, n \in Nat] ==
    (a \div b) * Pow10[n] + Frac[a % b, b, n]

\* a * 10^n / b truncated toward zero, for any sign of a
SDiv[a \in Int, b \in Int, n \in Nat] ==
    IF a >= 0 THEN LongDiv[a, b, n] ELSE 0 - LongDiv[0 - a, b, n]

IsqrtIter[n \in Int, x \in Int] ==
    IF (x + n \div x) \div 2 < x THEN IsqrtIter[n, (x + n \div x) \div 2] ELSE x

\* floor(sqrt(n)) by Newton's iteration (f64::sqrt)
Isqrt[n \in Int] == IF n < 2 THEN n ELSE IsqrtIter[n, (n + 1) \div 2]

\* sqrt of an FP number close to one: a Newton step from (1 + m) / 2
FSqrt[m \in Int] ==
    ((FP + m) \div 2 + LongDiv[m, (FP + m) \div 2, 6]) \div 2

\* 2 * pi and pi in FP units
TwoPi == 6283185

PI == 3141593

\* a quarter turn, in 1e-7 turns
Quarter == 2500000

\* radians (FP) of r 1e-7 turns
Rad[r \in Int] == FMul[r, TwoPi] \div 10

\* 1 - a2 / k * t, a step of the series of sin and cos
Term[a2 \in Int, k \in Int, t \in Int] == FP - FMul[a2 \div k, t]

\* sin(a) = a (1 - a^2/6 (1 - a^2/20 (1 - a^2/42))), 0 <= a <= pi/4
SinSeries[a \in Int, a2 \in Int] ==
    FMul[a, Term[a2, 6, Term[a2, 20, Term[a2, 42, FP]]]]

SinPoly[a \in Int] == SinSeries[a, FMul[a, a]]

\* cos(a) = 1 - a^2/2 (1 - a^2/12 (1 - a^2/30 (1 - a^2/56))), 0 <= a <= pi/4
CosSeries[a2 \in Int] ==
    Term[a2, 2, Term[a2, 12, Term[a2, 30, Term[a2, 56, FP]]]]

CosPoly[a \in Int] == CosSeries[FMul[a, a]]

\* sin of r 1e-7 turns, 0 <= r <= Quarter
SinQ[r \in Int] ==
    IF r <= Quarter \div 2 THEN SinPoly[Rad[r]] ELSE CosPoly[Rad[Quarter - r]]

\* sin of m 1e-7 turns, 0 <= m < one turn
SinReduced[m \in Int] ==
    CASE m \div Quarter = 0 -> SinQ[m % Quarter]
      [] m \div Quarter = 1 -> SinQ[Quarter - (m % Quarter)]
      [] m \div Quarter = 2 -> 0 - SinQ[m % Quarter]
      [] OTHER -> 0 - SinQ[Quarter - (m % Quarter)]

\* sin of t 1e-7 turns (f64::sin), FP units
SinTurn[t \in Int] == SinReduced[t % DEG]

\* cos of t 1e-7 turns (f64::cos), FP units
CosTurn[t \in Int] == SinTurn[t + Quarter]

(***************************************************************************)
(* Types                                                                   *)
(***************************************************************************)
CoordSystem == {"WGS84", "GCJ02", "BD09"}

Coordinate(lng, lat) == [lng |-> lng, lat |-> lat]

ConvertError == {"UnsupportedConversion", "OutOfChina"}

NoCoord == Coordinate(0, 0)

\* Result<Coordinate, ConvertError>
Ok(c) == [tag |-> "Ok", val |-> c, err |-> "none"]

Err(e) == [tag |-> "Err", val |-> NoCoord, err |-> e]

(***************************************************************************)
(* mod gcj02_bd09                                                          *)
(***************************************************************************)
\* the turns of v * BAIDU_FACTOR: BAIDU_FACTOR / (2 pi) = 3000 / 360 = 25 / 3
\* turns per degree, a period of 0.12 degree
BaiduTurn[v \in Int] == ((v % 1200000) * 25) \div 3

\* sqrt(x.powi(2) + y.powi(2)), in 1e-2 degrees
Radius[x \in Int, y \in Int] ==
    Isqrt[(x \div 100000) * (x \div 100000) + (y \div 100000) * (y \div 100000)]

\* v * 0.000003 * c, c in FP units
Micro3[v \in Int, c \in Int] == ((FMul[v, c] \div 1000) * 3 + 500) \div 1000

\* w * (1 + dz / r): w in 1e-7 degrees, dz in 1e-7 degrees times FP, r in
\* 1e-2 degrees
Stretch[w \in Int, dz \in Int, r \in Int] ==
    w + (FMul[dz, SDiv[w \div 100000, r, 6]] + FP \div 2) \div FP

\* (z * theta.cos(), z * theta.sin()) for
\*   z     = sqrt(x^2 + y^2) + sg * 0.00002  * sin(y * BAIDU_FACTOR)
\*   theta = atan2(y, x)     + sg * 0.000003 * cos(x * BAIDU_FACTOR)
\* With r = sqrt(x^2 + y^2), t = atan2(y, x), z = r + dz and theta = t + dt:
\*   z cos(theta) = (1 + dz / r) (x cos(dt) - y sin(dt))
\*   z sin(theta) = (1 + dz / r) (y cos(dt) + x sin(dt))
\* and |dt| <= 3e-6 makes cos(dt) = 1 and sin(dt) = dt at this resolution.
\* c is cos(x * BAIDU_FACTOR).
PolarRotate[x \in Int, y \in Int, sg \in Int, dz \in Int, c \in Int, r \in Int] ==
    [lng |-> Stretch[x - sg * Micro3[y, c], dz, r],
     lat |-> Stretch[y + sg * Micro3[x, c], dz, r]]

PolarOffset[x \in Int, y \in Int, sg \in Int] ==
    PolarRotate[x, y, sg, sg * 200 * SinTurn[BaiduTurn[y]],
                CosTurn[BaiduTurn[x]], Radius[x, y]]

\* 0.0065 and 0.006 degrees
BdLngOffset == 65000

BdLatOffset == 60000

\* bd09_to_gcj02 without the subtraction of the additive offsets
bd09_to_gcj02_no_offset(coord) == PolarOffset[coord.lng, coord.lat, -1]

bd09_to_gcj02(coord) ==
    LET x == coord.lng - BdLngOffset
        y == coord.lat - BdLatOffset
    IN  PolarOffset[x, y, -1]

gcj02_to_bd09(coord) ==
    LET x == coord.lng
        y == coord.lat
    IN  The({ Coordinate(p.lng + BdLngOffset, p.lat + BdLatOffset) :
                  p \in {PolarOffset[x, y, 1]} })

(***************************************************************************)
(* mod gcj02_wgs84                                                         *)
(***************************************************************************)
\* metres
A == 6378245

\* EE = 0.006693421622965823, in 1e-9
EE == 6693422

\* the box without its eastern edge
is_in_china_bbox_no_east(lon, lat) ==
    lon >= 720040000 /\ lat >= 8293000 /\ lat <= 558271000

\* the box without its western edge
is_in_china_bbox_no_west(lon, lat) ==
    lon <= 1378347000 /\ lat >= 8293000 /\ lat <= 558271000

is_in_china_bbox(lon, lat) ==
    lon >= 720040000 /\ lon <= 1378347000 /\ lat >= 8293000 /\ lat <= 558271000

\* x, y in 1e-7 degrees; the result in FP units
transform_lat[x \in Int, y \in Int] ==
    LET x6 == x \div 10
        y6 == y \div 10
        r0 == 0 - 100 * FP + 2 * x6 + 3 * y6 + FMul[y6, y6] \div 5
              + FMul[x6, y6] \div 10 + 200 * Isqrt[Abs(x6)]
        r1 == ((20 * SinTurn[3 * x] + 20 * SinTurn[x]) * 2) \div 3
        r2 == ((20 * SinTurn[y \div 2] + 40 * SinTurn[y \div 6]) * 2) \div 3
        r3 == ((160 * SinTurn[y \div 24] + 320 * SinTurn[y \div 60]) * 2) \div 3
    IN  r0 + r1 + r2 + r3

transform_lon[x \in Int, y \in Int] ==
    LET x6 == x \div 10
        y6 == y \div 10
        r0 == 300 * FP + x6 + 2 * y6 + FMul[x6, x6] \div 10
              + FMul[x6, y6] \div 10 + 100 * Isqrt[Abs(x6)]
        r1 == ((20 * SinTurn[3 * x] + 20 * SinTurn[x]) * 2) \div 3
        r2 == ((20 * SinTurn[x \div 2] + 40 * SinTurn[x \div 6]) * 2) \div 3
        r3 == ((150 * SinTurn[x \div 24] + 300 * SinTurn[x \div 60]) * 2) \div 3
    IN  r0 + r1 + r2 + r3

\* magic = 1 - EE * sin(rad_lat)^2, FP units
Magic[sin_lat \in Int] == FP - FMul[EE, FMul[sin_lat, sin_lat]] \div 1000

\* (d * 180) / den in 1e-7 degrees: d in FP units, den in metres
ToDegrees[d \in Int, den \in Int] == SDiv[(d \div 1000) * 180, den, 4]

\* (A / sqrt_magic) * rad_lat.cos() * PI, metres
DenLon[sqrt_magic \in Int, cos_lat \in Int] ==
    FMul[FMul[LongDiv[A, sqrt_magic, 6], cos_lat], PI]

\* ((A * (1.0 - EE)) / (magic * sqrt_magic)) * PI, metres
DenLat[magic \in Int, sqrt_magic \in Int] ==
    FMul[LongDiv[A - FMul[A, EE] \div 1000, FMul[magic, sqrt_magic], 6], PI]

\* lines 111-120, for rad_lat in 1e-7 turns and magic = 1 - EE * sin^2
DeltaScaled[d_lon \in Int, d_lat \in Int, rad_lat \in Int, magic \in Int] ==
    << ToDegrees[d_lon, DenLon[FSqrt[magic], CosTurn[rad_lat]]],
       ToDegrees[d_lat, DenLat[magic, FSqrt[magic]]] >>

\* <<d_lon, d_lat>> in 1e-7 degrees
delta[lon \in Int, lat \in Int] ==
    DeltaScaled[transform_lon[lon - 105 * DEG, lat - 35 * DEG],
                transform_lat[lon - 105 * DEG, lat - 35 * DEG],
                lat \div 360, Magic[SinTurn[lat \div 360]]]

wgs84_to_gcj02(coord) ==
    LET lon == coord.lng
        lat == coord.lat
    IN  IF ~ is_in_china_bbox(lon, lat)
        THEN Err("OutOfChina")
        ELSE The({ Ok(Coordinate(lon + d[1], lat + d[2])) : d \in {delta[lon, lat]} })


\* the loop left as soon as one residual component is below 1e-6
Converged_either(dx, dy) == Abs(dx) < 10 \/ Abs(dy) < 10

\* both residual components below 1e-6 degrees (line 154)
Converged(dx, dy) == Abs(dx) < 10 /\ Abs(dy) < 10

\* the body of the loop without the correction of the candidate
LoopBody_no_update(lon, lat, wgs_lon, wgs_lat) ==
    The({ IF temp_point.tag = "Err"
          THEN [exit |-> "return", ret |-> temp_point,
                wgs |-> Coordinate(wgs_lon, wgs_lat)]
          ELSE LET dx == temp_point.val.lng - lon
                   dy == temp_point.val.lat - lat
               IN  IF Converged(dx, dy)
                   THEN [exit |-> "break", ret |-> Ok(Coordinate(wgs_lon, wgs_lat)),
                         wgs |-> Coordinate(wgs_lon, wgs_lat)]
                   ELSE [exit |-> "continue", ret |-> Err("none"),
                         wgs |-> Coordinate(wgs_lon, wgs_lat)]
          : temp_point \in {wgs84_to_gcj02(Coordinate(wgs_lon, wgs_lat))} })

\* one pass through the body of the loop of gcj02_to_wgs84: the way the pass
\* leaves the body, the value it returns and the candidate after it
LoopBody(lon, lat, wgs_lon, wgs_lat) ==
    The({ IF temp_point.tag = "Err"
          THEN [exit |-> "return", ret |-> temp_point,
                wgs |-> Coordinate(wgs_lon, wgs_lat)]
          ELSE LET dx == temp_point.val.lng - lon
                   dy == temp_point.val.lat - lat
               IN  IF Converged(dx, dy)
                   THEN [exit |-> "break", ret |-> Ok(Coordinate(wgs_lon, wgs_lat)),
                         wgs |-> Coordinate(wgs_lon, wgs_lat)]
                   ELSE [exit |-> "continue", ret |-> Err("none"),
                         wgs |-> Coordinate(wgs_lon - dx, wgs_lat - dy)]
          : temp_point \in {wgs84_to_gcj02(Coordinate(wgs_lon, wgs_lat))} })

\* the most passes through the loop that a call is followed for
MaxIter == 6

\* the outcome of a loop that is still running when it is no longer followed
Running == [tag |-> "Running", val |-> NoCoord, err |-> "none"]

RECURSIVE InverseLoop(_, _, _, _, _)
InverseLoop(lon, lat, wgs_lon, wgs_lat, n) ==
    IF n = 0 THEN Running
    ELSE The({ IF b.exit = "continue"
               THEN InverseLoop(lon, lat, b.wgs.lng, b.wgs.lat, n - 1)
               ELSE b.ret
               : b \in {LoopBody(lon, lat, wgs_lon, wgs_lat)} })

gcj02_to_wgs84(coord) ==
    LET lon == coord.lng
        lat == coord.lat
    IN  IF ~ is_in_china_bbox(lon, lat)
        THEN Err("OutOfChina")
        ELSE InverseLoop(lon, lat, lon, lat, MaxIter)

(***************************************************************************)
(* transform                                                               *)
(***************************************************************************)
\* the match without the arm (BD09, GCJ02)
MatchArm_no_bd09_gcj02(f, t) ==
    CASE f = "WGS84" /\ t = "GCJ02" -> 1
      [] f = "GCJ02" /\ t = "WGS84" -> 2
      [] f = "GCJ02" /\ t = "BD09" -> 3
      [] f = "WGS84" /\ t = "BD09" -> 5
      [] f = "BD09" /\ t = "WGS84" -> 6
      [] OTHER -> 7

\* the match with (GCJ02, BD09) routed through wgs84_to_gcj02
MatchArm_gcj02_bd09_via_wgs84(f, t) ==
    CASE f = "WGS84" /\ t = "GCJ02" -> 1
      [] f = "GCJ02" /\ t = "WGS84" -> 2
      [] f = "GCJ02" /\ t = "BD09" -> 5
      [] f = "BD09" /\ t = "GCJ02" -> 4
      [] f = "WGS84" /\ t = "BD09" -> 5
      [] f = "BD09" /\ t = "WGS84" -> 6
      [] OTHER -> 7

\* the match with the two directions of WGS84 and GCJ02 exchanged
MatchArm_swapped(f, t) ==
    CASE f = "WGS84" /\ t = "GCJ02" -> 2
      [] f = "GCJ02" /\ t = "WGS84" -> 1
      [] f = "GCJ02" /\ t = "BD09" -> 3
      [] f = "BD09" /\ t = "GCJ02" -> 4
      [] f = "WGS84" /\ t = "BD09" -> 5
      [] f = "BD09" /\ t = "WGS84" -> 6
      [] OTHER -> 7

\* the arm of the match of transform that (from, to) selects: 1 .. 6 are the
\* arms of lines 36 .. 45 in order, 7 is the arm `_` of line 46
MatchArm(f, t) ==
    CASE f = "WGS84" /\ t = "GCJ02" -> 1
      [] f = "GCJ02" /\ t = "WGS84" -> 2
      [] f = "GCJ02" /\ t = "BD09" -> 3
      [] f = "BD09" /\ t = "GCJ02" -> 4
      [] f = "WGS84" /\ t = "BD09" -> 5
      [] f = "BD09" /\ t = "WGS84" -> 6
      [] OTHER -> 7

\* the function an arm calls first ("done": the arm returns without a call)
FirstCall(a) ==
    CASE a \in {1, 5} -> "wgs84_to_gcj02"
      [] a = 2 -> "gcj02_to_wgs84"
      [] a = 3 -> "gcj02_to_bd09"
      [] a \in {4, 6} -> "bd09_to_gcj02"
      [] OTHER -> "done"

\* the arm (WGS84, BD09) returning after its first call
Continuation_no_second_leg(a, callee, r) ==
    CASE a = 6 /\ callee = "bd09_to_gcj02" -> "gcj02_to_wgs84"
      [] OTHER -> "done"

\* the arm (WGS84, BD09) without the `?`
Continuation_ignores_error(a, callee, r) ==
    CASE a = 5 /\ callee = "wgs84_to_gcj02" -> "gcj02_to_bd09"
      [] a = 6 /\ callee = "bd09_to_gcj02" -> "gcj02_to_wgs84"
      [] OTHER -> "done"

\* what an arm does when the function `callee` has returned r: the next call,
\* or "done" when the arm returns (the `?` of line 41 returns the error)
Continuation(a, callee, r) ==
    CASE a = 5 /\ callee = "wgs84_to_gcj02" ->
             IF r.tag = "Err" THEN "done" ELSE "gcj02_to_bd09"
      [] a = 6 /\ callee = "bd09_to_gcj02" -> "gcj02_to_wgs84"
      [] OTHER -> "done"

\* transform(coord, from, to), the value of the whole call
transform(coord, f, t) ==
    CASE f = "WGS84" /\ t = "GCJ02" -> wgs84_to_gcj02(coord)
      [] f = "GCJ02" /\ t = "WGS84" -> gcj02_to_wgs84(coord)
      [] f = "GCJ02" /\ t = "BD09" -> Ok(gcj02_to_bd09(coord))
      [] f = "BD09" /\ t = "GCJ02" -> Ok(bd09_to_gcj02(coord))
      [] f = "WGS84" /\ t = "BD09" ->
             The({ IF r.tag = "Err" THEN r ELSE Ok(gcj02_to_bd09(r.val)) :
                       r \in {wgs84_to_gcj02(coord)} })
      [] f = "BD09" /\ t = "WGS84" -> gcj02_to_wgs84(bd09_to_gcj02(coord))
      [] OTHER -> Ok(coord)

(***************************************************************************)
(* Inputs                                                                  *)
(***************************************************************************)
\* the number of steps of the grid of inputs
GridN == 4

\* the coordinates of tests (114.304569, 116.407387, 61.972426), the edges of
\* the box (72.004, 137.8347), 137.84 just east of it, and 136.7866677
TestLons ==
    {1143045690, 1164073870, 619724260, 720040000, 1378347000, 1378400000,
     1367866677}

\* 30.593354, 39.904179, 31.998164, the edges 0.8293 and 55.8271, 55.83 just
\* north of the box, and 54.4478353
TestLats ==
    {305933540, 399041790, 319981640, 8293000, 558271000, 558300000,
     544478353}

\* 65 + 17.3 i degrees of longitude, -3 + 14.7 i degrees of latitude
GridLons == {650000000 + i * 173000000 : i \in 0 .. GridN}

GridLats == {147000000 * i - 30000000 : i \in 0 .. GridN}

Inputs ==
    {Coordinate(lng, lat) : lng \in TestLons \cup GridLons,
                            lat \in TestLats \cup GridLats}

(***************************************************************************)
(* The calls.  A call of transform is followed function by function; log   *)
(* records, in the order of their completion, the functions that ran, the  *)
(* coordinate each was given and whether it succeeded.  A caller may hand  *)
(* the coordinate a call returned back to transform in the other direction *)
(* (phase 2); orig is then the coordinate the first call was given.        *)
(***************************************************************************)
VARIABLES coord, from, to, phase, orig, pc, arm, arg, wgs, iter, result, log

vars == << coord, from, to, phase, orig, pc, arm, arg, wgs, iter, result, log >>

NoResult == [tag |-> "None", val |-> NoCoord, err |-> "none"]

Event(fn, c, ok) == [fn |-> fn, arg |-> c, ok |-> ok]

\* what a call wgs84_to_gcj02(c) runs: the check of the box, delta when the
\* check passes, and its own return
Wgs84Events(c) ==
    LET inside == is_in_china_bbox(c.lng, c.lat)
    IN  << Event("is_in_china_bbox", c, inside) >>
        \o (IF inside THEN << Event("delta", c, TRUE) >> ELSE << >>)
        \o << Event("wgs84_to_gcj02", c, inside) >>

Init ==
    /\ coord \in Inputs
    /\ from \in CoordSystem
    /\ to \in CoordSystem
    /\ phase = 1
    /\ orig = coord
    /\ pc = "transform"
    /\ arm = 0
    /\ arg = coord
    /\ wgs = NoCoord
    /\ iter = 0
    /\ result = NoResult
    /\ log = << >>

\* lines 35-47: the match; the arm `_` returns Ok(coord) at once
Transform ==
    /\ pc = "transform"
    /\ arm' = MatchArm(from, to)
    /\ pc' = FirstCall(arm')
    /\ result' = IF FirstCall(arm') = "done" THEN Ok(coord) ELSE result
    /\ arg' = coord
    /\ UNCHANGED << coord, from, to, phase, orig, wgs, iter, log >>

\* lines 123-133, called from the arms of lines 36 and 41
Wgs84ToGcj02 ==
    /\ pc = "wgs84_to_gcj02"
    /\ \E r \in {wgs84_to_gcj02(arg)} :
           LET next == Continuation(arm, "wgs84_to_gcj02", r)
           IN  /\ log' = log \o Wgs84Events(arg)
               /\ pc' = next
               /\ result' = IF next = "done" THEN r ELSE result
               /\ arg' = IF r.tag = "Ok" THEN r.val ELSE arg
    /\ UNCHANGED << coord, from, to, phase, orig, arm, wgs, iter >>

\* lines 66-76, called from the arms of lines 38 and 40
Gcj02ToBd09 ==
    /\ pc = "gcj02_to_bd09"
    /\ log' = Append(log, Event("gcj02_to_bd09", arg, TRUE))
    /\ result' = Ok(gcj02_to_bd09(arg))
    /\ pc' = "done"
    /\ UNCHANGED << coord, from, to, phase, orig, arm, arg, wgs, iter >>

\* lines 54-64, called from the arms of lines 39 and 44
Bd09ToGcj02 ==
    /\ pc = "bd09_to_gcj02"
    /\ \E v \in {bd09_to_gcj02(arg)} :
           LET next == Continuation(arm, "bd09_to_gcj02", Ok(v))
           IN  /\ log' = Append(log, Event("bd09_to_gcj02", arg, TRUE))
               /\ pc' = next
               /\ result' = IF next = "done" THEN Ok(v) ELSE result
               /\ arg' = v
    /\ UNCHANGED << coord, from, to, phase, orig, arm, wgs, iter >>

\* lines 135-143: the check of the input and the first candidate
Gcj02ToWgs84 ==
    /\ pc = "gcj02_to_wgs84"
    /\ LET inside == is_in_china_bbox(arg.lng, arg.lat)
       IN  /\ log' = Append(log, Event("is_in_china_bbox", arg, inside))
           /\ pc' = IF inside THEN "loop" ELSE "done"
           /\ result' = IF inside THEN result ELSE Err("OutOfChina")
           /\ wgs' = IF inside THEN arg ELSE wgs
    /\ UNCHANGED << coord, from, to, phase, orig, arm, arg, iter >>

\* lines 145-162: one pass through the loop; arg is the GCJ02 target
Loop ==
    /\ pc = "loop"
    /\ iter < MaxIter
    /\ \E b \in {LoopBody(arg.lng, arg.lat, wgs.lng, wgs.lat)} :
           /\ log' = log \o Wgs84Events(wgs)
           /\ iter' = iter + 1
           /\ wgs' = b.wgs
           /\ pc' = IF b.exit = "continue" THEN "loop" ELSE "done"
           /\ result' = IF b.exit = "continue" THEN result ELSE b.ret
    /\ UNCHANGED << coord, from, to, phase, orig, arm, arg >>

\* the caller converts the coordinate it received back (lines 200-219 of the
\* tests convert in the direction opposite to lines 173-192)
RoundTrip ==
    /\ pc = "done"
    /\ phase = 1
    /\ result.tag = "Ok"
    /\ phase' = 2
    /\ coord' = result.val
    /\ from' = to
    /\ to' = from
    /\ pc' = "transform"
    /\ arm' = 0
    /\ arg' = result.val
    /\ wgs' = NoCoord
    /\ iter' = 0
    /\ result' = NoResult
    /\ log' = << >>
    /\ UNCHANGED orig

Next ==
    \/ Transform
    \/ Wgs84ToGcj02
    \/ Gcj02ToBd09
    \/ Bd09ToGcj02
    \/ Gcj02ToWgs84
    \/ Loop
    \/ RoundTrip

Spec == Init /\ [][Next]_vars

\* a call runs to its end: the code is sequential and nothing suspends it
FairSpec == Spec /\ WF_vars(Next)

(***************************************************************************)
(* Properties                                                              *)
(***************************************************************************)
\* the box as the specification states it: [72.004, 137.8347] x [0.8293, 55.8271]
SpecBox(c) ==
    /\ c.lng >= 720040000 /\ c.lng <= 1378347000
    /\ c.lat >= 8293000 /\ c.lat <= 558271000

OutOfChina == Err("OutOfChina")

\* both components of a and b differ by less than tol
Near(a, b, tol) == Abs(a.lng - b.lng) < tol /\ Abs(a.lat - b.lat) < tol

ThroughWgs84Gcj02 ==
    { <<"WGS84", "GCJ02">>, <<"GCJ02", "WGS84">>,
      <<"WGS84", "BD09">>, <<"BD09", "WGS84">> }

\* C1 (as stated): a call of one of the four conversions through WGS84 <-> GCJ02
\* whose input lies outside the box returns Err(OutOfChina).
C1_OutOfChinaGating ==
    (pc = "done" /\ ~ SpecBox(coord) /\ <<from, to>> \in ThroughWgs84Gcj02)
        => result = OutOfChina

\* C1 (amended): WGS84->GCJ02, GCJ02->WGS84 and WGS84->BD09 return
\* Err(OutOfChina) when the input lies outside the box; BD09->WGS84 returns it
\* when bd09_to_gcj02 of the input lies outside the box.
C1_GatingAmended ==
    pc = "done" =>
        /\ (/\ <<from, to>> \in ThroughWgs84Gcj02 \ { <<"BD09", "WGS84">> }
            /\ ~ SpecBox(coord)) => result = OutOfChina
        /\ (/\ <<from, to>> = <<"BD09", "WGS84">>
            /\ ~ SpecBox(bd09_to_gcj02(coord))) => result = OutOfChina

C1_Witness ==
    /\ pc = "done" /\ from = "BD09" /\ to = "WGS84"
    /\ ~ SpecBox(coord) /\ ~ SpecBox(bd09_to_gcj02(coord))
    /\ result = OutOfChina

C3_Identity ==
    /\ arm # 0 => (arm = 7 <=> from = to)
    /\ (pc = "done" /\ from = to)
           => /\ result = Ok(coord)
              /\ \A i \in DOMAIN log : log[i].fn # "is_in_china_bbox"

C3_Witness ==
    /\ pc = "done" /\ from = to /\ arm = 7
    /\ ~ SpecBox(coord)
    /\ result = Ok(coord)

\* the outcome of transform(., f, t) applied to the outcome r of a first call
AndThen(r, f, t) ==
    The({ IF v.tag = "Err" THEN v ELSE transform(v.val, f, t) : v \in {r} })

\* C4: the outcome of a call WGS84->BD09 is that of GCJ02->BD09 applied to the
\* outcome of WGS84->GCJ02, and the outcome of a call BD09->WGS84 is that of
\* GCJ02->WGS84 applied to the outcome of BD09->GCJ02; an error of a leg is the
\* outcome.
C4_Composition ==
    pc = "done" =>
        /\ (from = "WGS84" /\ to = "BD09")
               => result = AndThen(transform(coord, "WGS84", "GCJ02"), "GCJ02", "BD09")
        /\ (from = "BD09" /\ to = "WGS84")
               => result = AndThen(transform(coord, "BD09", "GCJ02"), "GCJ02", "WGS84")

C4_Witness ==
    /\ pc = "done" /\ from = "WGS84" /\ to = "BD09"
    /\ result.tag = "Ok"
    /\ \E i \in DOMAIN log : log[i].fn = "gcj02_to_bd09"

\* C5: transform never returns UnsupportedConversion; its only error is
\* OutOfChina, returned only when exactly one of from, to is WGS84; the calls
\* GCJ02->BD09 and BD09->GCJ02 return Ok for every input.
C5_ErrorOutcomes ==
    /\ result.err # "UnsupportedConversion"
    /\ result.tag = "Err"
           => result = OutOfChina /\ (from = "WGS84") # (to = "WGS84")
    /\ (pc = "done" /\ {from, to} = {"GCJ02", "BD09"}) => result.tag = "Ok"

C5_Witness ==
    /\ pc = "done" /\ from = "GCJ02" /\ to = "BD09"
    /\ ~ SpecBox(coord)
    /\ result.tag = "Ok"

\* C6: in a call WGS84->BD09, gcj02_to_bd09 runs only after wgs84_to_gcj02 has
\* returned Ok; when wgs84_to_gcj02 fails, gcj02_to_bd09 never runs and the
\* call returns that error.
C6_ShortCircuit ==
    arm = 5 =>
        /\ \A i \in DOMAIN log :
               log[i].fn = "gcj02_to_bd09"
                   => \E j \in 1 .. (i - 1) :
                          log[j].fn = "wgs84_to_gcj02" /\ log[j].ok
        /\ (\E j \in DOMAIN log : log[j].fn = "wgs84_to_gcj02" /\ ~ log[j].ok)
               => /\ \A i \in DOMAIN log : log[i].fn # "gcj02_to_bd09"
                  /\ pc = "done"
                  /\ result = wgs84_to_gcj02(coord)
                  /\ result = OutOfChina

C6_Witness ==
    /\ arm = 5 /\ pc = "done" /\ result = OutOfChina
    /\ \E j \in DOMAIN log : log[j].fn = "wgs84_to_gcj02" /\ ~ log[j].ok

\* the functions that do floating-point transform work
FloatWork == {"delta", "gcj02_to_bd09", "bd09_to_gcj02"}

NoFloatWork == \A i \in DOMAIN log : log[i].fn \notin FloatWork

\* C7 (as stated): when a call ends in OutOfChina, no delta and no polar-offset
\* computation has run in that call.
C7_EarliestGate == (pc = "done" /\ result = OutOfChina) => NoFloatWork

\* C7 (amended): when a call WGS84->GCJ02 or WGS84->BD09 ends in OutOfChina, or
\* a call GCJ02->WGS84 whose input lies outside the box, no delta and no
\* polar-offset computation has run in that call.
C7_EarliestGateAmended ==
    (/\ pc = "done" /\ result = OutOfChina
     /\ from = "WGS84" \/ (from = "GCJ02" /\ ~ SpecBox(coord)))
        => NoFloatWork

C7_Witness ==
    /\ pc = "done" /\ from = "WGS84" /\ to = "BD09"
    /\ result = OutOfChina
    /\ log # << >> /\ NoFloatWork

\* C8: the loop of gcj02_to_wgs84 is eventually left, with Ok or with
\* OutOfChina.
C8_Termination ==
    (pc = "loop") ~> (pc = "done" /\ (result.tag = "Ok" \/ result = OutOfChina))

C8_Witness ==
    /\ pc = "done" /\ arm = 6 /\ iter >= 2
    /\ result.tag \in {"Ok", "Err"}

\* the number of checks of the box in the log
RECURSIVE BoxChecks(_)
BoxChecks(l) ==
    IF l = << >> THEN 0
    ELSE (IF Head(l).fn = "is_in_china_bbox" THEN 1 ELSE 0) + BoxChecks(Tail(l))

\* C9: the first candidate is the GCJ02 input; every pass checks the box for
\* its candidate; delta runs only for coordinates inside the box; a candidate
\* outside the box ends the call with OutOfChina in that pass.
C9_Revalidation ==
    /\ (pc = "loop" /\ iter = 0) => wgs = arg
    /\ \A i \in DOMAIN log : log[i].fn = "delta" => SpecBox(log[i].arg)
    /\ (arm \in {2, 6} /\ pc \in {"loop", "done"}) =>
           /\ BoxChecks(log) = iter + 1
           /\ \A i \in DOMAIN log :
                  (log[i].fn = "wgs84_to_gcj02" /\ ~ SpecBox(log[i].arg))
                      => i = Len(log) /\ pc = "done" /\ result = OutOfChina

\* an input inside the box that ends in OutOfChina
C9_Witness ==
    /\ pc = "done" /\ from = "GCJ02" /\ to = "WGS84"
    /\ SpecBox(coord)
    /\ iter >= 2
    /\ result = OutOfChina

\* C10: when gcj02_to_wgs84(g) returns Ok(w), w lies inside the box,
\* wgs84_to_gcj02(w) succeeds and both components of its result differ from g
\* by less than 1e-6.
C10_Postcondition ==
    (pc = "done" /\ arm \in {2, 6} /\ result.tag = "Ok") =>
        \E w \in {result.val} :
            \E g \in {IF arm = 2 THEN coord ELSE bd09_to_gcj02(coord)} :
                \E f \in {wgs84_to_gcj02(w)} :
                    /\ SpecBox(w)
                    /\ f.tag = "Ok"
                    /\ Abs(f.val.lng - g.lng) < 10
                    /\ Abs(f.val.lat - g.lat) < 10

C10_Witness ==
    /\ pc = "done" /\ arm = 2 /\ iter >= 2
    /\ SpecBox(coord)
    /\ result.tag = "Ok"

=============================================================================
